---------------------------- MODULE Spec2Model ----------------------------
(***************************************************************************)
(* Control-plane model of three Tone.js nodes: Convolver (effect wrapping  *)
(* a native ConvolverNode and a ToneAudioBuffer), CrossFade (equal power   *)
(* mixer) and AmplitudeEnvelope (envelope driving a gain node).            *)
(*                                                                         *)
(* One node is constructed per behaviour (variable node); every action is  *)
(* one whole control-plane operation (a constructor, setter, method call   *)
(* or promise continuation), which JavaScript runs to completion.          *)
(***************************************************************************)
EXTENDS Integers, Sequences, FiniteSets, TLC

\* ------------------------------------------------------------------ bounds
\* The buffers the program makes itself have a length in 0..MaxLen (0: an
\* empty, not loaded buffer).
MaxLen == 1
\* Native ConvolverNodes one Convolver may create.
MaxUnits == 3
\* Buffer loads (the constructor's one included) one Convolver may start.
MaxLoads == 2
\* CrossFade.fade takes the values k/FadeSteps, k in 0..FadeSteps.
FadeSteps == 4
\* Gains are fixed-point numbers in units of 1/GainScale.
GainScale == 1000
\* The envelope's value is a level in 0..EnvMax (EnvMax: 1.0).
EnvMax == 4
\* The attack, decay and release times, in ticks of the clock.
AttackTicks == 2
DecayTicks == 2
ReleaseTicks == 2
\* triggerAttackRelease holds the note for 0..MaxHold ticks.
MaxHold == 2

\* ------------------------------------------------------------- the graph
\* The getter's "no buffer" result and the setter's null argument.
NullArg == -1

Nd(k) == [kind |-> k, id |-> 0]
\* The i-th native ConvolverNode created by context.createConvolver().
Unit(i) == [kind |-> "ConvolverNode", id |-> i]

effectSend == Nd("effectSend")
effectReturn == Nd("effectReturn")
input == Nd("input")
output == Nd("output")
\* Nodes of the rest of the program, on either side of the node under study.
extSource == Nd("extSource")
extDest == Nd("extDest")
\* CrossFade's two inputs and AmplitudeEnvelope's gain node.
a == Nd("a")
b == Nd("b")
gainNode == Nd("_gainNode")

\* node.disconnect(): every outgoing edge of n is removed; no error when none.
Disconnect(E, n) == {e \in E : e[1] # n}

\* Effect.connectEffect(effect): effectSend.chain(effect, effectReturn).
connectEffect(E, u) == E \cup {<<effectSend, u>>, <<u, effectReturn>>}

\* The wiring the Effect base class makes around the send and the return.
EffectWiring == {<<input, effectSend>>, <<effectReturn, output>>}

\* Two impulse responses to download. Decoding the audio at url u yields a
\* buffer; a url is named by the length of what it decodes to, so the two
\* give different data.
Urls == {1, 2}
Decode(u) == u

VARIABLES
    node,               \* the class that was constructed
    edges,              \* the audio graph: a set of <<from, to>>
    disposedSet,        \* names of the objects whose dispose() has run
    op,                 \* the last operation: [name, arg]
    err,                \* the error the last operation raised, or "none"
    ret,                \* what the last operation returned
    bufferData,         \* Convolver._buffer: the length of its data
    convolver,          \* Convolver._convolver: the id of the current unit
    convolverBuffer,    \* _convolver.buffer (0: null)
    convolverNormalize, \* _convolver.normalize
    newest,             \* the load started last: [url, st]
    older,              \* superseded loads still in flight: url -> how many
    started,            \* how many loads were started
    normalizeSet,       \* history: the value last assigned to normalize
    fadeValue,          \* CrossFade.fade.value, in steps of 1/FadeSteps
    fadeSignal,         \* the Signal the property CrossFade.fade names
    pannerPan,          \* the value at _panner.pan, in steps of 1/FadeSteps
    aGain,              \* the value at a.gain, in 1/GainScale
    bGain,              \* the value at b.gain, in 1/GainScale
    ports,              \* the node's input and output: [input, output]
    steps,              \* the calls the last operation made, in order
    assigns,            \* history: buffers the current unit was given
    ctorLoad,           \* the constructor's load: -u newest, u superseded
    envState,           \* Envelope: the phase of the envelope
    ramp,               \* Envelope: the ramp scheduled on _sig
    releaseIn,          \* Envelope: ticks until a scheduled release (-1: none)
    sustain             \* Envelope: options.sustain, in 1/EnvMax

vars == <<node, edges, disposedSet, op, err, ret, bufferData, convolver,
          convolverBuffer, convolverNormalize, newest, older, started,
          normalizeSet, fadeValue, fadeSignal, pannerPan, aGain, bGain,
          ports, steps, assigns, ctorLoad, envState, ramp, releaseIn,
          sustain>>

cfVars == <<fadeValue, fadeSignal, pannerPan, aGain, bGain>>

cvVars == <<bufferData, convolver, convolverBuffer, convolverNormalize,
            newest, older, started, normalizeSet, assigns, ctorLoad>>

envVars == <<envState, ramp, releaseIn, sustain>>

Op(n, x) == [name |-> n, arg |-> x]

\* An AmplitudeEnvelope whose output is left as the Envelope's own signal.
OutputOfSignal(n) ==
    CASE n = "Convolver" -> output
      [] n = "CrossFade" -> output
      [] n = "AmplitudeEnvelope" -> Nd("_sig")

\* The ports other nodes connect to and from (CrossFade has no input of its
\* own, line 88; AmplitudeEnvelope's input and output are its gain node,
\* lines 37-38).
InputsOf(n) ==
    CASE n = "Convolver" -> {input}
      [] n = "CrossFade" -> {a, b}
      [] n = "AmplitudeEnvelope" -> {gainNode}

OutputOf(n) ==
    CASE n = "Convolver" -> output
      [] n = "CrossFade" -> output
      [] n = "AmplitudeEnvelope" -> gainNode

Ports(n) == [input |-> InputsOf(n), output |-> OutputOf(n)]

\* ------------------------------------------------------------- Envelope
\* A value that is held, and a linear ramp from f to t over n ticks of
\* which left remain.
Hold(v) == [from |-> v, to |-> v, left |-> 0, ticks |-> 1]
Ramp(f, t, n) == [from |-> f, to |-> t, left |-> n, ticks |-> n]

\* The value of the control signal on ramp r now.
ValueOf(r) == r.to + ((r.from - r.to) * r.left) \div r.ticks

\* A release that ramps down from full level whatever the value is.
triggerReleaseFromPeak(v) ==
    [state |-> "releasing", ramp |-> Ramp(EnvMax, 0, ReleaseTicks)]

\* Envelope.triggerAttack at value v: a ramp from v to 1.0.
triggerAttack(v) ==
    [state |-> "attacking", ramp |-> Ramp(v, EnvMax, AttackTicks)]

\* Envelope.triggerRelease at value v: a ramp from v to 0.
triggerRelease(v) ==
    [state |-> "releasing", ramp |-> Ramp(v, 0, ReleaseTicks)]

\* One tick of the clock: the ramp advances, and at its end the attack
\* turns to the decay, the decay to the sustain and the release to idle.
Advance(st, r, level) ==
    IF r.left = 0 THEN [state |-> st, ramp |-> r]
    ELSE IF r.left > 1 THEN [state |-> st, ramp |-> [r EXCEPT !.left = @ - 1]]
    ELSE CASE st = "attacking" ->
                  [state |-> "decaying", ramp |-> Ramp(EnvMax, level, DecayTicks)]
           [] st = "decaying" -> [state |-> "sustaining", ramp |-> Hold(level)]
           [] st = "releasing" -> [state |-> "idle", ramp |-> Hold(0)]
           [] OTHER -> [state |-> st, ramp |-> Hold(r.to)]

\* The envelope variables of a node that is not an envelope.
EnvelopeUnused ==
    /\ envState = "idle" /\ ramp = Hold(0) /\ releaseIn = -1 /\ sustain = 0

\* ------------------------------------------------------------ Convolver
\* The Convolver's own state as a record, so that the setter can be applied
\* by the constructor and by every later operation alike.
CvState == [bufferData |-> bufferData, convolver |-> convolver,
            convolverBuffer |-> convolverBuffer,
            convolverNormalize |-> convolverNormalize,
            edges |-> edges, err |-> "none",
            assigns |-> assigns, steps |-> <<>>]

\* One more call made by the operation under way.
Step(s, call) == [s EXCEPT !.steps = Append(@, call)]

\* context.createConvolver(): a fresh ConvolverNode has no buffer and, by the
\* Web Audio default, normalize = true.
createConvolver(s) == [s EXCEPT !.convolver = s.convolver + 1,
                                !.convolverBuffer = 0,
                                !.convolverNormalize = TRUE,
                                !.assigns = 0,
                                !.steps = Append(@, "createConvolver")]

\* ToneAudioBuffer.get(): the data, or nothing when the buffer is empty; the
\* setter turns nothing into null (0 here).
BufferGet(d) == IF d > 0 THEN d ELSE 0

\* ToneAudioBuffer.set(buffer): the backing buffer takes the data of buffer.
\* On a disposed backing buffer the outcome is not fixed by the sources:
\* throws chooses between failing and storing.
BufferSet(s, buffer, throws) ==
    IF throws THEN [s EXCEPT !.err = "DisposedError"]
    ELSE [s EXCEPT !.bufferData = buffer, !.steps = Append(@, "set")]

\* A method called on a disposed node of the graph (other than dispose)
\* fails with DisposedError.
DisposedFails(D, owner) == owner \in D

\* SwapUnit without line 99: the old unit keeps its edge to effectReturn.
SwapUnitKeepsOld(s, D) ==
    IF DisposedFails(D, "Effect") THEN [s EXCEPT !.err = "DisposedError"]
    ELSE LET cut == Disconnect(s.edges, effectSend)
             made == createConvolver(Step(s, "effectSend.disconnect"))
         IN Step([made EXCEPT !.edges = connectEffect(cut, Unit(made.convolver))],
                 "connectEffect")

\* SwapUnit with this.disconnect() for this._convolver.disconnect() on
\* line 99: the node's own output is disconnected.
SwapUnitDisconnectsOutput(s, D) ==
    IF DisposedFails(D, "Effect") THEN [s EXCEPT !.err = "DisposedError"]
    ELSE LET cut == Disconnect(Disconnect(s.edges, effectSend), output)
             off == Step(Step(s, "effectSend.disconnect"), "disconnect")
             made == createConvolver(off)
         IN Step([made EXCEPT !.edges = connectEffect(cut, Unit(made.convolver))],
                 "connectEffect")

\* Lines 96-103 of the setter: the unit substitution. effectSend is a Gain
\* owned by Effect: once Effect is disposed its disconnect() fails.
SwapUnit(s, D) ==
    IF DisposedFails(D, "Effect") THEN [s EXCEPT !.err = "DisposedError"]
    ELSE LET cut == Disconnect(Disconnect(s.edges, effectSend), Unit(s.convolver))
             off == Step(Step(s, "effectSend.disconnect"), "_convolver.disconnect")
             made == createConvolver(off)
         IN Step([made EXCEPT !.edges = connectEffect(cut, Unit(made.convolver))],
                 "connectEffect")

\* Lines 104-105 of the setter: the current unit is given what the backing
\* buffer holds. assigns counts the buffers (not null) a unit was given, up
\* to 2.
AssignUnit(s) ==
    LET buff == BufferGet(s.bufferData)
    IN Step([s EXCEPT !.convolverBuffer = buff,
                      !.assigns = IF buff = 0 THEN @
                                  ELSE IF @ < 2 THEN @ + 1 ELSE 2],
            "_convolver.buffer=")

\* The setter with lines 104-105 run only when no unit was substituted: a
\* new unit is left without a buffer.
BufferSetterNoAssign(s, buffer, throws, D) ==
    LET s1 == IF buffer # NullArg THEN BufferSet(s, buffer, throws) ELSE s
    IN IF s1.err # "none" THEN s1
       ELSE IF s1.convolverBuffer # 0 THEN SwapUnit(s1, D)
       ELSE AssignUnit(s1)

\* The setter without lines 96-103: the unit in place is given the buffer.
BufferSetterNoSwap(s, buffer, throws, D) ==
    LET s1 == IF buffer # NullArg THEN BufferSet(s, buffer, throws) ELSE s
    IN IF s1.err # "none" THEN s1 ELSE AssignUnit(s1)

\* The setter with the test of line 96 left out: every assignment makes a
\* new unit.
BufferSetterAlwaysSwaps(s, buffer, throws, D) ==
    LET s1 == IF buffer # NullArg THEN BufferSet(s, buffer, throws) ELSE s
    IN IF s1.err # "none" THEN s1
       ELSE LET s2 == SwapUnit(s1, D)
            IN IF s2.err # "none" THEN s2 ELSE AssignUnit(s2)

\* The setter with null clearing the backing buffer.
BufferSetterNullClears(s, buffer, throws, D) ==
    LET s1 == BufferSet(s, IF buffer = NullArg THEN 0 ELSE buffer, throws)
    IN IF s1.err # "none" THEN s1
       ELSE LET s2 == IF s1.convolverBuffer # 0 THEN SwapUnit(s1, D) ELSE s1
            IN IF s2.err # "none" THEN s2 ELSE AssignUnit(s2)

\* set buffer(buffer), lines 91-106. buffer is NullArg or a length.
BufferSetter(s, buffer, throws, D) ==
    LET s1 == IF buffer # NullArg THEN BufferSet(s, buffer, throws) ELSE s
    IN IF s1.err # "none" THEN s1
       ELSE LET s2 == IF s1.convolverBuffer # 0 THEN SwapUnit(s1, D) ELSE s1
            IN IF s2.err # "none" THEN s2 ELSE AssignUnit(s2)

\* The getter without its length test.
BufferGetterAlways == bufferData

\* get buffer(), lines 84-90.
BufferGetter == IF bufferData # 0 THEN bufferData ELSE NullArg

\* get normalize(), lines 113-115.
NormalizeGetter == convolverNormalize

\* Whether the setter would need one more unit than the model allows.
RoomForUnit == convolverBuffer = 0 \/ convolver < MaxUnits \/ "Effect" \in disposedSet

\* The outcomes ToneAudioBuffer.set can have: it stores, or, on a disposed
\* backing buffer, it may also fail.
SetThrows == IF "_buffer" \in disposedSet THEN BOOLEAN ELSE {FALSE}

Apply(s) ==
    /\ bufferData' = s.bufferData
    /\ convolver' = s.convolver
    /\ convolverBuffer' = s.convolverBuffer
    /\ convolverNormalize' = s.convolverNormalize
    /\ edges' = s.edges
    /\ err' = s.err
    /\ assigns' = s.assigns
    /\ steps' = s.steps

\* The constructor, lines 42-62. src is 0 (no url), a length (a loaded
\* buffer) or a url given as -u (a string: the download starts).
Constructed(src, normalize) ==
    LET fresh == [bufferData |-> IF src > 0 THEN src ELSE 0,
                  convolver |-> 1, convolverBuffer |-> 0,
                  convolverNormalize |-> TRUE,
                  edges |-> EffectWiring, err |-> "none",
                  assigns |-> 0, steps |-> <<>>]
        set == IF fresh.bufferData > 0
               THEN BufferSetter(fresh, fresh.bufferData, FALSE, {})
               ELSE fresh
        normed == [set EXCEPT !.convolverNormalize = normalize]
    IN [normed EXCEPT !.edges = connectEffect(normed.edges, Unit(normed.convolver))]

CtorSources == (0..MaxLen) \cup {-u : u \in Urls}

\* No load was started yet.
NoLoad == [url |-> 0, st |-> "none"]
NoneInFlight == [u \in Urls |-> 0]

InitConvolver ==
    \E src \in CtorSources, normalize \in BOOLEAN :
        LET s == Constructed(src, normalize) IN
        /\ node = "Convolver"
        /\ bufferData = s.bufferData
        /\ convolver = s.convolver
        /\ convolverBuffer = s.convolverBuffer
        /\ convolverNormalize = s.convolverNormalize
        /\ edges = s.edges
        /\ err = "none"
        /\ assigns = s.assigns
        /\ steps = s.steps
        /\ ctorLoad = (IF src < 0 THEN src ELSE 0)
        /\ ports = Ports("Convolver")
        /\ EnvelopeUnused
        /\ newest = IF src < 0 THEN [url |-> -src, st |-> "pending"] ELSE NoLoad
        /\ older = NoneInFlight
        /\ started = IF src < 0 THEN 1 ELSE 0
        /\ normalizeSet = normalize
        /\ disposedSet = {}
        /\ op = Op("new", src)
        /\ ret = "this"
        /\ fadeValue = 0 /\ fadeSignal = "own"
        /\ pannerPan = 0 /\ aGain = 0 /\ bGain = 0

\* History: the data the newest load stored has been replaced since.
Overwritten(l) == IF l.st = "resolved" THEN [l EXCEPT !.st = "overwritten"] ELSE l

\* convolver.buffer = buffer, by the program.
SetBuffer ==
    /\ node = "Convolver"
    /\ RoomForUnit
    /\ \E buffer \in {NullArg} \cup (0..MaxLen), throws \in SetThrows :
          /\ Apply(BufferSetter(CvState, buffer, throws, disposedSet))
          /\ op' = Op("setBuffer", buffer)
          /\ newest' = IF buffer # NullArg /\ ~throws THEN Overwritten(newest)
                       ELSE newest
    /\ ret' = "undefined"
    /\ UNCHANGED cfVars
    /\ UNCHANGED envVars
    /\ UNCHANGED <<node, ports, disposedSet, older, started, normalizeSet,
                   ctorLoad>>

\* convolver.normalize = norm, lines 116-118.
SetNormalize ==
    /\ node = "Convolver"
    /\ \E norm \in BOOLEAN :
          /\ convolverNormalize' = norm
          /\ normalizeSet' = norm
          /\ op' = Op("setNormalize", IF norm THEN 1 ELSE 0)
    /\ err' = "none"
    /\ ret' = "undefined"
    /\ steps' = <<>>
    /\ UNCHANGED cfVars
    /\ UNCHANGED envVars
    /\ UNCHANGED <<node, ports, edges, disposedSet, bufferData, convolver,
                   convolverBuffer, newest, older, started, assigns,
                   ctorLoad>>

\* ToneAudioBuffer.load(url) up to its await: the download starts, and the
\* load that was in flight is superseded.
Supersede(l, o) ==
    IF l.st = "pending" THEN [o EXCEPT ![l.url] = @ + 1] ELSE o

\* convolver.load(url), lines 77-79, up to the await.
Load ==
    /\ node = "Convolver"
    /\ started < MaxLoads
    /\ \E url \in Urls, throws \in SetThrows :
          /\ op' = Op("load", url)
          /\ IF throws
             THEN /\ err' = "DisposedError"
                  /\ UNCHANGED <<newest, older, started, ctorLoad>>
             ELSE /\ err' = "none"
                  /\ older' = Supersede(newest, older)
                  /\ newest' = [url |-> url, st |-> "pending"]
                  /\ started' = started + 1
                  /\ ctorLoad' = (IF ctorLoad < 0 THEN -ctorLoad ELSE ctorLoad)
    /\ ret' = "promise"
    /\ steps' = <<>>
    /\ UNCHANGED cfVars
    /\ UNCHANGED envVars
    /\ UNCHANGED <<node, ports, edges, disposedSet, bufferData, convolver,
                   convolverBuffer, convolverNormalize, normalizeSet, assigns>>

\* What the backing buffer does when a download completes: the load in
\* flight stores its data, a superseded one discards its result.
Downloaded(s, url, superseded, throws) ==
    IF superseded THEN s ELSE BufferSet(s, Decode(url), throws)

\* The continuation with the completion signalled before the assignment.
ContinueSignalsFirst(s, throws, D, ctor) ==
    IF s.err # "none" THEN s
    ELSE BufferSetter(Step(s, IF ctor THEN "onload" ELSE "resolve"),
                      s.bufferData, throws, D)

\* The continuation of a load whose download has completed: line 78 after
\* the await, or the constructor's callback of lines 47-50. Both assign the
\* backing buffer itself to this.buffer.
\* ctor tells the two apart: the callback then calls options.onload()
\* (line 49), the async function returns and its promise resolves (line 79).
Continue(s, throws, D, ctor) ==
    IF s.err # "none" THEN s
    ELSE LET set == BufferSetter(s, s.bufferData, throws, D)
         IN IF set.err # "none" THEN set
            ELSE Step(set, IF ctor THEN "onload" ELSE "resolve")

\* The download of the newest load completes.
LoadResolve ==
    /\ node = "Convolver"
    /\ newest.st = "pending"
    /\ RoomForUnit
    /\ \E throws \in SetThrows :
          LET s == Continue(Downloaded(CvState, newest.url, FALSE, throws),
                            throws, disposedSet, ctorLoad < 0)
          IN /\ Apply(s)
             /\ newest' = [newest EXCEPT !.st =
                             IF s.err # "none" THEN "rejected" ELSE "resolved"]
    /\ op' = Op("loadResolved", newest.url)
    /\ ret' = "undefined"
    /\ ctorLoad' = (IF ctorLoad < 0 THEN 0 ELSE ctorLoad)
    /\ UNCHANGED cfVars
    /\ UNCHANGED envVars
    /\ UNCHANGED <<node, ports, disposedSet, older, started, normalizeSet>>

\* Whether the superseded load of url that completes is the constructor's:
\* it is when no other superseded load of url is in flight.
CtorAmong(url) ==
    IF ctorLoad # url THEN {FALSE}
    ELSE IF older[url] > 1 THEN BOOLEAN ELSE {TRUE}

\* The download of a superseded load of url completes.
SupersededResolve(url) ==
    /\ node = "Convolver"
    /\ older[url] > 0
    /\ RoomForUnit
    /\ \E throws \in SetThrows, ctor \in CtorAmong(url) :
          /\ Apply(Continue(Downloaded(CvState, url, TRUE, throws),
                            throws, disposedSet, ctor))
          /\ ctorLoad' = (IF ctor THEN 0 ELSE ctorLoad)
    /\ older' = [older EXCEPT ![url] = @ - 1]
    /\ op' = Op("supersededResolved", url)
    /\ ret' = "undefined"
    /\ UNCHANGED cfVars
    /\ UNCHANGED envVars
    /\ UNCHANGED <<node, ports, disposedSet, newest, started, normalizeSet>>

\* What the backing buffer keeps of a download that failed: what it had.
DownloadFailed(s) == s

\* load with a handler that clears the buffer on failure and swallows the
\* error.
RejectedAssignsNull(s, D) == BufferSetter(s, NullArg, FALSE, D)

\* What a failed download leaves of the Convolver: load has no handler, so
\* the promise it returned rejects with the loader's error and line 78
\* never assigns.
Rejected(s, D) == [DownloadFailed(s) EXCEPT !.err = "FetchError"]

\* The download of the newest load fails.
LoadReject ==
    /\ node = "Convolver"
    /\ newest.st = "pending"
    /\ Apply(Rejected(CvState, disposedSet))
    /\ newest' = [newest EXCEPT !.st = "rejected"]
    /\ op' = Op("loadRejected", newest.url)
    /\ ret' = "undefined"
    /\ ctorLoad' = (IF ctorLoad < 0 THEN 0 ELSE ctorLoad)
    /\ UNCHANGED cfVars
    /\ UNCHANGED envVars
    /\ UNCHANGED <<node, ports, disposedSet, older, started, normalizeSet>>

\* The download of a superseded load of url fails.
SupersededReject(url) ==
    /\ node = "Convolver"
    /\ older[url] > 0
    /\ Apply(Rejected(CvState, disposedSet))
    /\ \E ctor \in CtorAmong(url) : ctorLoad' = (IF ctor THEN 0 ELSE ctorLoad)
    /\ older' = [older EXCEPT ![url] = @ - 1]
    /\ op' = Op("supersededRejected", url)
    /\ ret' = "undefined"
    /\ UNCHANGED cfVars
    /\ UNCHANGED envVars
    /\ UNCHANGED <<node, ports, disposedSet, newest, started, normalizeSet>>

\* ToneAudioNode.dispose() of an Effect: its own nodes are disconnected; a
\* second call does nothing.
EffectDispose(E, D) ==
    IF "Effect" \in D THEN E
    ELSE {e \in E : e[1] \notin {input, output, effectSend, effectReturn}}

\* What the constructor acquires, in order: the Effect (super, line 44),
\* the unit (line 29), the backing buffer (line 47).
ConvolverAcquired == <<"Effect", "_convolver", "_buffer">>

\* What dispose() releases, in order, lines 121-123.
ConvolverReleased == <<"Effect", "_buffer", "_convolver">>

\* dispose() without line 123: the unit keeps its edge to effectReturn.
ConvolverDisposeKeepsUnit(s, D) ==
    [s EXCEPT !.edges = EffectDispose(s.edges, D), !.bufferData = 0,
              !.steps = ConvolverReleased]

\* dispose() that refuses a disposed node as the other methods would.
ConvolverDisposeThrows(s, D) ==
    IF "Effect" \in D THEN [s EXCEPT !.err = "DisposedError"]
    ELSE [s EXCEPT !.edges = Disconnect(EffectDispose(s.edges, D),
                                        Unit(s.convolver)),
                   !.bufferData = 0, !.steps = ConvolverReleased]

\* Convolver.dispose(), lines 120-125.
ConvolverDispose(s, D) ==
    [s EXCEPT !.edges = Disconnect(EffectDispose(s.edges, D), Unit(s.convolver)),
              !.bufferData = 0, !.steps = ConvolverReleased]

Disposed == disposedSet # {}

\* op.arg of a dispose: 1 for the first call, 2 for a later one.
DisposeOp == Op("dispose", IF Disposed THEN 2 ELSE 1)

DisposeConvolver ==
    /\ node = "Convolver"
    /\ Apply(ConvolverDispose(CvState, disposedSet))
    /\ disposedSet' = disposedSet \cup {"Effect", "_buffer"}
    /\ newest' = Overwritten(newest)
    /\ op' = DisposeOp
    /\ ret' = "this"
    /\ UNCHANGED cfVars
    /\ UNCHANGED envVars
    /\ UNCHANGED <<node, ports, older, started, normalizeSet, ctorLoad>>

\* ------------------------------------------------------------ CrossFade
aGainParam == Nd("a.gain")
bGainParam == Nd("b.gain")
fade == Nd("fade")
g2a == Nd("_g2a")
panner == Nd("_panner")
pannerPanParam == Nd("_panner.pan")
split == Nd("_split")
\* Output ch of the ChannelSplitterNode.
splitOut(ch) == [kind |-> "_split.out", id |-> ch]
constant1 == Nd("getConstant(1)")

\* The gain a and b are constructed with (gain: 0, lines 69 and 77).
aOwnGain == 0
bOwnGain == 0

\* The constructor with the two splitter channels exchanged.
CrossFadeWiringSwapped ==
    {<<constant1, panner>>, <<panner, split>>,
     <<splitOut(1), aGainParam>>, <<splitOut(0), bGainParam>>,
     <<fade, g2a>>, <<g2a, pannerPanParam>>,
     <<a, output>>, <<b, output>>}

\* The constructor with both gains connected to splitter channel 0.
CrossFadeWiringOneChannel ==
    {<<constant1, panner>>, <<panner, split>>,
     <<splitOut(0), aGainParam>>, <<splitOut(0), bGainParam>>,
     <<fade, g2a>>, <<g2a, pannerPanParam>>,
     <<a, output>>, <<b, output>>}

\* The connections of the constructor, lines 113-121.
CrossFadeWiring ==
    {<<constant1, panner>>, <<panner, split>>,
     <<splitOut(0), aGainParam>>, <<splitOut(1), bGainParam>>,
     <<fade, g2a>>, <<g2a, pannerPanParam>>,
     <<a, output>>, <<b, output>>}

\* GainToAudio: x in [0,1] becomes 2x - 1 in [-1,1] (both in 1/FadeSteps).
GainToAudio(x) == 2 * x - FadeSteps

\* sin(k/n * pi/2) in 1/GainScale, by Bhaskara's rational approximation
\* (exact at k = 0 and k = n, within 0.2% of full scale between).
SinQuarter(k, n) ==
    (GainScale * 4 * k * (2 * n - k)) \div (5 * n * n - k * (2 * n - k))

\* The StereoPannerNode's equal-power law for a mono input: with
\* x = (pan + 1) / 2, the left gain is cos(x pi/2), the right sin(x pi/2).
PanLeft(pan) == SinQuarter(FadeSteps - (pan + FadeSteps) \div 2, FadeSteps)
PanRight(pan) == SinQuarter((pan + FadeSteps) \div 2, FadeSteps)

\* The control values the graph E produces from the value f of the fade
\* Signal: each stage passes a value on only along an edge of E, and a and b
\* add nothing of their own (gain: 0, lines 67-78).
Drive(E, f) ==
    LET g2aOut == GainToAudio(IF <<fade, g2a>> \in E THEN f ELSE 0)
        pan == IF <<g2a, pannerPanParam>> \in E THEN g2aOut ELSE 0
        src == IF <<constant1, panner>> \in E /\ <<panner, split>> \in E
               THEN 1 ELSE 0
        left == src * PanLeft(pan)
        right == src * PanRight(pan)
        into(param) == (IF <<splitOut(0), param>> \in E THEN left ELSE 0)
                       + (IF <<splitOut(1), param>> \in E THEN right ELSE 0)
    IN [pan |-> pan,
        a |-> aOwnGain * GainScale + into(aGainParam),
        b |-> bOwnGain * GainScale + into(bGainParam)]

Driven(E, f) ==
    /\ pannerPan' = Drive(E, f).pan
    /\ aGain' = Drive(E, f).a
    /\ bGain' = Drive(E, f).b

InitCrossFade ==
    \E f \in 0..FadeSteps :
        /\ node = "CrossFade"
        /\ fadeValue = f
        /\ fadeSignal = "own"
        /\ edges = CrossFadeWiring
        /\ pannerPan = Drive(CrossFadeWiring, f).pan
        /\ aGain = Drive(CrossFadeWiring, f).a
        /\ bGain = Drive(CrossFadeWiring, f).b
        /\ disposedSet = {}
        /\ op = Op("new", f)
        /\ err = "none"
        /\ ret = "this"
        /\ bufferData = 0 /\ convolver = 0 /\ convolverBuffer = 0
        /\ convolverNormalize = TRUE /\ normalizeSet = TRUE
        /\ newest = NoLoad /\ older = NoneInFlight /\ started = 0
        /\ assigns = 0 /\ ctorLoad = 0 /\ steps = <<>>
        /\ ports = Ports("CrossFade")
        /\ EnvelopeUnused

\* crossFade.fade.value = v, as in the class's example (lines 37-42): the
\* Signal named by fade takes the value, and the chain carries it on.
SetFadeValue ==
    /\ node = "CrossFade"
    /\ \E v \in 0..FadeSteps :
          /\ op' = Op("setFadeValue", v)
          /\ IF DisposedFails(disposedSet, "fade")
             THEN /\ err' = "DisposedError"
                  /\ UNCHANGED cfVars
             ELSE /\ err' = "none"
                  /\ fadeValue' = v
                  /\ IF fadeSignal = "own"
                     THEN Driven(edges, v)
                     ELSE UNCHANGED <<pannerPan, aGain, bGain>>
                  /\ UNCHANGED fadeSignal
    /\ ret' = "undefined"
    /\ steps' = <<>>
    /\ UNCHANGED cvVars
    /\ UNCHANGED envVars
    /\ UNCHANGED <<node, ports, edges, disposedSet>>

\* Without line 111 the property takes what is assigned to it.
writable(current, assigned) == assigned

\* readOnly(this, "fade"), line 111 (and the readonly modifier of line 95):
\* the property fade keeps naming the Signal of the constructor whatever is
\* assigned to it.
readOnly(current, assigned) == current

\* crossFade.fade = <another Signal>, by the program.
AssignFade ==
    /\ node = "CrossFade"
    /\ fadeSignal' = readOnly(fadeSignal, "other")
    /\ err' = IF fadeSignal' = fadeSignal THEN "ReadOnlyError" ELSE "none"
    /\ op' = Op("assignFade", 0)
    /\ ret' = "undefined"
    /\ steps' = <<>>
    /\ UNCHANGED cvVars
    /\ UNCHANGED envVars
    /\ UNCHANGED <<node, ports, edges, disposedSet, fadeValue, pannerPan, aGain, bGain>>

\* What the constructor acquires, in order: the base node (super, line
\* 104), the fields in the order of their initializers (lines 51-83), and
\* the fade Signal (line 106).
CrossFadeAcquired ==
    <<"ToneAudioNode", "_panner", "_split", "_g2a", "a", "b", "output", "fade">>

\* dispose() that forgets the panner and the splitter.
CrossFadeReleasedFew ==
    <<"ToneAudioNode", "a", "b", "output", "fade", "_g2a">>

\* What dispose() releases, in order, lines 131-138.
CrossFadeReleased ==
    <<"ToneAudioNode", "a", "b", "output", "fade", "_g2a", "_panner", "_split">>

\* CrossFade.dispose(), lines 130-140.
CrossFadeDispose(E) ==
    {e \in E : e[1] \notin {a, b, output, fade, g2a, panner,
                            splitOut(0), splitOut(1)}}

DisposeCrossFade ==
    /\ node = "CrossFade"
    /\ edges' = CrossFadeDispose(edges)
    /\ disposedSet' = disposedSet \cup
                        {"ToneAudioNode", "a", "b", "output", "fade", "_g2a"}
    /\ Driven(edges', fadeValue)
    /\ steps' = CrossFadeReleased
    /\ op' = DisposeOp
    /\ err' = "none"
    /\ ret' = "this"
    /\ UNCHANGED cvVars
    /\ UNCHANGED envVars
    /\ UNCHANGED <<node, ports, fadeValue, fadeSignal>>

\* ---------------------------------------------------- AmplitudeEnvelope
sig == Nd("_sig")
gainNodeGain == Nd("_gainNode.gain")

\* The one connection of the constructor, line 44.
EnvelopeWiring == {<<sig, gainNodeGain>>}

\* The gain the gain node is constructed with (gain: 0, line 35).
gainNodeOwnGain == 0

\* A gain node left at the default gain of a Gain, 1.
AppliedGainUnity(E, v) ==
    EnvMax + (IF <<sig, gainNodeGain>> \in E THEN v ELSE 0)

\* The gain applied to the input, in 1/EnvMax: the gain node's own gain
\* plus what is connected to its gain parameter (lines 33-36, 44).
AppliedGain(E, v) ==
    gainNodeOwnGain * EnvMax + (IF <<sig, gainNodeGain>> \in E THEN v ELSE 0)

InitAmplitudeEnvelope ==
    /\ node = "AmplitudeEnvelope"
    /\ edges = EnvelopeWiring
    /\ ports = Ports("AmplitudeEnvelope")
    /\ envState = "idle" /\ ramp = Hold(0) /\ releaseIn = -1
    /\ sustain \in 0..EnvMax
    /\ assigns = 0 /\ ctorLoad = 0 /\ steps = <<>>
    /\ disposedSet = {}
    /\ op = Op("new", 0)
    /\ err = "none"
    /\ ret = "this"
    /\ bufferData = 0 /\ convolver = 0 /\ convolverBuffer = 0
    /\ convolverNormalize = TRUE /\ normalizeSet = TRUE
    /\ newest = NoLoad /\ older = NoneInFlight /\ started = 0
    /\ fadeValue = 0 /\ fadeSignal = "own"
    /\ pannerPan = 0 /\ aGain = 0 /\ bGain = 0

\* The value of the envelope now.
EnvValue == ValueOf(ramp)

\* A call of one of the inherited trigger methods; to is what it makes of
\* the envelope, hold the ticks until the release that is scheduled after
\* it (-1: none).
Trigger(name, arg, to, hold) ==
    /\ node = "AmplitudeEnvelope"
    /\ op' = Op(name, arg)
    /\ IF DisposedFails(disposedSet, "Envelope")
       THEN /\ err' = "DisposedError"
            /\ UNCHANGED <<envState, ramp, releaseIn>>
       ELSE /\ err' = "none"
            /\ envState' = to.state
            /\ ramp' = to.ramp
            /\ releaseIn' = hold
    /\ ret' = "this"
    /\ steps' = <<>>
    /\ UNCHANGED cvVars
    /\ UNCHANGED cfVars
    /\ UNCHANGED <<node, ports, edges, disposedSet, sustain>>

\* env.triggerAttack(), by the program.
TriggerAttack ==
    Trigger("triggerAttack", 0, triggerAttack(EnvValue), releaseIn)

\* env.triggerRelease(), by the program.
TriggerRelease ==
    Trigger("triggerRelease", 0, triggerRelease(EnvValue), releaseIn)

\* env.triggerAttackRelease(duration), by the program: the attack now, the
\* release after duration.
TriggerAttackRelease ==
    \E duration \in 0..MaxHold :
        Trigger("triggerAttackRelease", duration, triggerAttack(EnvValue),
                duration)

\* The release scheduled by triggerAttackRelease comes due.
ScheduledRelease ==
    /\ ~DisposedFails(disposedSet, "Envelope")
    /\ releaseIn = 0
    /\ Trigger("scheduledRelease", 0, triggerRelease(EnvValue), -1)

\* The audio clock advances by one tick.
Tick ==
    /\ node = "AmplitudeEnvelope"
    /\ ~DisposedFails(disposedSet, "Envelope")
    /\ releaseIn # 0
    /\ ramp.left > 0 \/ releaseIn > 0
    /\ LET to == Advance(envState, ramp, sustain)
       IN /\ envState' = to.state
          /\ ramp' = to.ramp
    /\ releaseIn' = (IF releaseIn > 0 THEN releaseIn - 1 ELSE releaseIn)
    /\ op' = Op("tick", 0)
    /\ err' = "none"
    /\ ret' = "undefined"
    /\ steps' = <<>>
    /\ UNCHANGED cvVars
    /\ UNCHANGED cfVars
    /\ UNCHANGED <<node, ports, edges, disposedSet, sustain>>

\* What the constructor acquires, in order: the Envelope (super, line 43)
\* and the gain node (line 33).
AmplitudeEnvelopeAcquired == <<"Envelope", "_gainNode">>

\* What dispose() releases, in order, lines 53-54.
AmplitudeEnvelopeReleased == <<"Envelope", "_gainNode">>

\* AmplitudeEnvelope.dispose(), lines 52-56: Envelope.dispose() releases the
\* control signal, then the gain node is disposed.
AmplitudeEnvelopeDispose(E) == {e \in E : e[1] \notin {sig, gainNode}}

DisposeAmplitudeEnvelope ==
    /\ node = "AmplitudeEnvelope"
    /\ edges' = AmplitudeEnvelopeDispose(edges)
    /\ disposedSet' = disposedSet \cup {"Envelope", "_gainNode"}
    /\ steps' = AmplitudeEnvelopeReleased
    /\ op' = DisposeOp
    /\ err' = "none"
    /\ ret' = "this"
    /\ UNCHANGED cvVars
    /\ UNCHANGED cfVars
    /\ UNCHANGED envVars
    /\ UNCHANGED <<node, ports>>

\* -------------------------------------------------- the rest of the graph
ExternalEdges(E) ==
    {e \in E : e[1] = extSource \/ e[2] = extDest}

Frame ==
    /\ err' = "none"
    /\ ret' = "undefined"
    /\ steps' = <<>>
    /\ UNCHANGED cvVars
    /\ UNCHANGED cfVars
    /\ UNCHANGED envVars
    /\ UNCHANGED <<node, ports, disposedSet>>

\* source.connect(node) or source.connect(crossFade.a), by the program.
ConnectIn ==
    /\ ~Disposed
    /\ \E t \in ports.input :
          /\ <<extSource, t>> \notin edges
          /\ edges' = edges \cup {<<extSource, t>>}
    /\ op' = Op("connectIn", 0)
    /\ Frame

\* node.connect(destination), by the program.
ConnectOut ==
    /\ ~Disposed
    /\ <<ports.output, extDest>> \notin edges
    /\ edges' = edges \cup {<<ports.output, extDest>>}
    /\ op' = Op("connectOut", 0)
    /\ Frame

\* source.disconnect(), by the program.
DisconnectIn ==
    /\ ~Disposed
    /\ \E e \in edges : e[1] = extSource
    /\ edges' = Disconnect(edges, extSource)
    /\ op' = Op("disconnectIn", 0)
    /\ Frame

\* node.disconnect(destination), by the program.
DisconnectOut ==
    /\ ~Disposed
    /\ <<ports.output, extDest>> \in edges
    /\ edges' = edges \ {<<ports.output, extDest>>}
    /\ op' = Op("disconnectOut", 0)
    /\ Frame

\* ------------------------------------------------------ the specification
Init == InitConvolver \/ InitCrossFade \/ InitAmplitudeEnvelope

Next ==
    \/ SetBuffer
    \/ SetNormalize
    \/ Load
    \/ LoadResolve
    \/ \E url \in Urls : SupersededResolve(url)
    \/ LoadReject
    \/ \E url \in Urls : SupersededReject(url)
    \/ DisposeConvolver
    \/ SetFadeValue
    \/ AssignFade
    \/ DisposeCrossFade
    \/ TriggerAttack
    \/ TriggerRelease
    \/ TriggerAttackRelease
    \/ ScheduledRelease
    \/ Tick
    \/ DisposeAmplitudeEnvelope
    \/ ConnectIn
    \/ ConnectOut
    \/ DisconnectIn
    \/ DisconnectOut

Spec == Init /\ [][Next]_vars

\* The behaviours of a Convolver that nothing else connects to.
NextConvolver ==
    \/ SetBuffer
    \/ SetNormalize
    \/ Load
    \/ LoadResolve
    \/ \E url \in Urls : SupersededResolve(url)
    \/ LoadReject
    \/ \E url \in Urls : SupersededReject(url)
    \/ DisposeConvolver

SpecConvolver == InitConvolver /\ [][NextConvolver]_vars

\* The behaviours of a CrossFade alone.
NextCrossFade ==
    \/ SetFadeValue
    \/ AssignFade
    \/ DisposeCrossFade
    \/ ConnectIn
    \/ ConnectOut
    \/ DisconnectIn
    \/ DisconnectOut

SpecCrossFade == InitCrossFade /\ [][NextCrossFade]_vars

\* The behaviours of an AmplitudeEnvelope alone.
NextEnvelope ==
    \/ TriggerAttack
    \/ TriggerRelease
    \/ TriggerAttackRelease
    \/ ScheduledRelease
    \/ Tick
    \/ DisposeAmplitudeEnvelope
    \/ ConnectIn
    \/ ConnectOut
    \/ DisconnectIn
    \/ DisconnectOut

SpecEnvelope == InitAmplitudeEnvelope /\ [][NextEnvelope]_vars

\* ------------------------------------------------------------ properties
IsUnit(n) == n.kind = "ConvolverNode"
UnitEdges(E) == {e \in E : IsUnit(e[1]) \/ IsUnit(e[2])}
Wired(u) == {<<effectSend, Unit(u)>>, <<Unit(u), effectReturn>>}
BufferAssigned == {"setBuffer", "loadResolved", "supersededResolved"}

\* C1: a constructed, not disposed Convolver has, between any two
\* operations, exactly one unit wired effectSend -> unit -> effectReturn, the
\* current one, and no replaced unit has an edge left.
OneUnitWired ==
    (node = "Convolver" /\ ~Disposed) => UnitEdges(edges) = Wired(convolver)

\* A load completion has replaced the unit a second time.
OneUnitWiredWitness ==
    /\ node = "Convolver" /\ ~Disposed
    /\ op.name = "loadResolved" /\ err = "none"
    /\ convolver = 3 /\ convolverBuffer # 0

\* C2: when a load was started while another was in flight and both have
\* completed, in either order, the unit and the backing buffer hold the data
\* of the load started last.
SupersededLoadDiscarded ==
    (/\ node = "Convolver"
     /\ started >= 2
     /\ newest.st = "resolved"
     /\ \A u \in Urls : older[u] = 0)
    => (convolverBuffer = Decode(newest.url) /\ bufferData = Decode(newest.url))

\* The superseded load of another url completed after the newest load had.
SupersededLoadDiscardedWitness ==
    /\ node = "Convolver" /\ ~Disposed
    /\ op.name = "supersededResolved" /\ err = "none"
    /\ newest.st = "resolved" /\ newest.url # op.arg
    /\ \A u \in Urls : older[u] = 0
    /\ convolver >= 2

\* C3: reading normalize gives the value last assigned to it (the
\* constructor's option when none was), whatever units were substituted.
NormalizeKept ==
    node = "Convolver" => NormalizeGetter = normalizeSet

\* C4: a failed download is reported to the caller of load and changes
\* neither the backing buffer, nor the unit and its buffer, nor the graph.
FailedLoadKeepsState ==
    [][op'.name \in {"loadRejected", "supersededRejected"} =>
         /\ err' = "FetchError"
         /\ bufferData' = bufferData
         /\ convolver' = convolver
         /\ convolverBuffer' = convolverBuffer
         /\ convolverNormalize' = convolverNormalize
         /\ edges' = edges]_vars

\* A reload failed on a Convolver holding a loaded buffer.
FailedLoadKeepsStateWitness ==
    /\ node = "Convolver" /\ ~Disposed
    /\ op.name = "loadRejected" /\ err = "FetchError"
    /\ bufferData > 0 /\ convolverBuffer = bufferData
    /\ BufferGetter = bufferData

\* C5: an assignment to buffer (by the program or by a load) changes no edge
\* from another node into the input or from the output to another node; the
\* edges it adds or removes all have a unit at one end.
ExternalEdgesKept ==
    [][op'.name \in BufferAssigned =>
         /\ ExternalEdges(edges') = ExternalEdges(edges)
         /\ (edges' \ edges) \cup (edges \ edges') \subseteq
               UnitEdges(edges) \cup UnitEdges(edges')]_vars

\* The program's first assignment replaced the unit of a Convolver that is
\* connected on both sides.
ExternalEdgesKeptWitness ==
    /\ node = "Convolver" /\ ~Disposed
    /\ op.name = "setBuffer" /\ op.arg > 0 /\ err = "none"
    /\ started = 0 /\ convolver = 2 /\ convolverBuffer = op.arg
    /\ ExternalEdges(edges) = {<<extSource, input>>, <<output, extDest>>}

\* C6: after buffer was assigned a buffer of length L > 0 the getter returns
\* a buffer of length L, after a buffer of length 0 it returns null; it
\* returns null exactly when the backing buffer is empty.
BufferRoundTrip ==
    node = "Convolver" =>
        /\ (op.name = "setBuffer" /\ err = "none" /\ op.arg > 0)
              => BufferGetter = op.arg
        /\ (op.name = "setBuffer" /\ err = "none" /\ op.arg = 0)
              => BufferGetter = NullArg
        /\ BufferGetter = NullArg <=> bufferData = 0
        /\ BufferGetter # NullArg => BufferGetter = bufferData

\* A buffer of the greatest length was assigned and the unit was replaced.
BufferRoundTripWitness ==
    /\ node = "Convolver" /\ ~Disposed
    /\ op = Op("setBuffer", MaxLen) /\ err = "none"
    /\ started = 0 /\ convolver = 2
    /\ BufferGetter = MaxLen

\* C7: from dispose() on, no unit has an edge from effectSend or to
\* effectReturn, and no unit is created.
NoUnitAfterDispose ==
    [][(node = "Convolver" /\ Disposed') =>
         /\ \A e \in edges' :
               /\ ~(e[1] = effectSend /\ IsUnit(e[2]))
               /\ ~(IsUnit(e[1]) /\ e[2] = effectReturn)
         /\ Disposed => convolver' = convolver]_vars

\* A download completed on a disposed Convolver whose unit holds a buffer.
NoUnitAfterDisposeWitness ==
    /\ node = "Convolver" /\ Disposed
    /\ op.name = "loadResolved"
    /\ convolverBuffer # 0

\* C8: dispose() raises nothing and returns the node; called on a disposed
\* node it leaves the edges and the set of disposed objects as they were.
DisposeTwice ==
    [][op'.name = "dispose" =>
         /\ err' = "none"
         /\ ret' = "this"
         /\ Disposed => (edges' = edges /\ disposedSet' = disposedSet)]_vars

\* dispose() was called a second time.
DisposeTwiceWitness ==
    /\ op = Op("dispose", 2)
    /\ node = "Convolver"
    /\ err = "none" /\ ret = "this"

\* C9: on a disposed Convolver load, the buffer setter and the normalize
\* setter fail with DisposedError.
DisposedRefuses ==
    (/\ node = "Convolver"
     /\ Disposed
     /\ op.name \in {"load", "setBuffer", "setNormalize"})
    => err = "DisposedError"

\* C10 as stated: setting the value of fade from outside fails with
\* ReadOnlyError.
FadeValueReadOnly ==
    (node = "CrossFade" /\ ~Disposed /\ op.name = "setFadeValue")
    => err = "ReadOnlyError"

\* C10 as amended: the property fade is read-only (an assignment to it fails
\* and it keeps naming the constructor's Signal), setting fade.value
\* succeeds and changes the value, and the chain fade -> _g2a -> _panner.pan
\* drives the gains of a and b from the value.
FadePropertyReadOnly ==
    (node = "CrossFade" /\ ~Disposed) =>
        /\ fadeSignal = "own"
        /\ op.name = "assignFade" => err = "ReadOnlyError"
        /\ op.name = "setFadeValue" => (err = "none" /\ fadeValue = op.arg)
        /\ pannerPan = GainToAudio(fadeValue)
        /\ aGain = PanLeft(pannerPan)
        /\ bGain = PanRight(pannerPan)

\* fade.value was set to 1: only b is heard.
FadePropertyReadOnlyWitness ==
    /\ node = "CrossFade" /\ ~Disposed
    /\ op = Op("setFadeValue", FadeSteps)
    /\ pannerPan = FadeSteps /\ aGain = 0 /\ bGain = GainScale

\* C11: the gains of a and b follow from fade alone, through the chain and
\* splitter channels 0 (a) and 1 (b), a and b adding no gain of their own:
\* fade = 0 gives 1 and 0, fade = 1 gives 0 and 1, fade = 0.5 equal gains.
FadeEndpoints ==
    (node = "CrossFade" /\ ~Disposed) =>
        /\ aOwnGain = 0 /\ bOwnGain = 0
        /\ <<splitOut(0), aGainParam>> \in edges
        /\ <<splitOut(1), bGainParam>> \in edges
        /\ aGain = PanLeft(GainToAudio(fadeValue))
        /\ bGain = PanRight(GainToAudio(fadeValue))
        /\ fadeValue = 0 => (aGain = GainScale /\ bGain = 0)
        /\ fadeValue = FadeSteps => (aGain = 0 /\ bGain = GainScale)
        /\ 2 * fadeValue = FadeSteps => (aGain = bGain /\ aGain > 0)

\* new CrossFade(0): a at full level, b silent.
FadeEndpointsWitness ==
    /\ node = "CrossFade" /\ ~Disposed
    /\ op = Op("new", 0)
    /\ aGain = GainScale /\ bGain = 0

\* The square of a gain, and the tolerance of the fixed-point panner law
\* (1% of full power).
Power(g) == g * g
PowerTolerance == (GainScale * GainScale) \div 100
Distance(x, y) == IF x >= y THEN x - y ELSE y - x

\* C12: for every fade the gains satisfy gA^2 + gB^2 = 1 (equal power); the
\* linear law gA + gB = 1 holds only at the two ends.
EqualPower ==
    (node = "CrossFade" /\ ~Disposed) =>
        /\ Distance(Power(aGain) + Power(bGain), Power(GainScale))
              <= PowerTolerance
        /\ fadeValue \notin {0, FadeSteps} =>
              aGain + bGain > GainScale + GainScale \div 10

\* A fade strictly between the two ends was set.
EqualPowerWitness ==
    /\ node = "CrossFade" /\ ~Disposed
    /\ op.name = "setFadeValue" /\ op.arg = 1
    /\ aGain > bGain /\ bGain > 0

Triggers == {"triggerAttack", "triggerRelease", "triggerAttackRelease",
             "scheduledRelease"}

\* C13: a live AmplitudeEnvelope has the one connection of its constructor,
\* from the control signal to the gain node's gain, and its input and output
\* are the gain node; no trigger call changes a connection or a port.
EnvelopeWiredOnce ==
    /\ [](node = "AmplitudeEnvelope" /\ ~Disposed =>
            /\ edges \ ExternalEdges(edges) = {<<sig, gainNodeGain>>}
            /\ ports.input = {gainNode}
            /\ ports.output = gainNode)
    /\ [][op'.name \in Triggers => (edges' = edges /\ ports' = ports)]_vars

\* A note was triggered on an envelope connected on both sides.
EnvelopeWiredOnceWitness ==
    /\ node = "AmplitudeEnvelope" /\ ~Disposed
    /\ op.name = "triggerAttackRelease" /\ err = "none"
    /\ envState = "attacking"
    /\ <<extSource, gainNode>> \in edges /\ <<gainNode, extDest>> \in edges

\* C14: a release in the attack, the decay or the sustain ramps to 0 from
\* the value the envelope has at that moment, so the value does not jump.
ReleaseFromCurrent ==
    [][(/\ op'.name \in {"triggerRelease", "scheduledRelease"}
        /\ err' = "none"
        /\ envState \in {"attacking", "decaying", "sustaining"})
       => (/\ envState' = "releasing"
           /\ ramp'.to = 0
           /\ ramp'.from = EnvValue
           /\ EnvValue' = EnvValue)]_vars

\* A release in the middle of the attack: the ramp starts at a value that
\* is neither 0, nor 1, nor the sustain level.
ReleaseFromCurrentWitness ==
    /\ node = "AmplitudeEnvelope"
    /\ op.name = "triggerRelease" /\ err = "none"
    /\ envState = "releasing" /\ ramp.left = ramp.ticks
    /\ ramp.from \notin {0, EnvMax, sustain}

\* C20: the gain a live AmplitudeEnvelope applies is the envelope's value,
\* the gain node adding none of its own; an idle envelope is at 0, applies
\* gain 0 and passes nothing of its input.
GainIsEnvelope ==
    (node = "AmplitudeEnvelope" /\ ~Disposed) =>
        /\ gainNodeOwnGain = 0
        /\ AppliedGain(edges, EnvValue) = EnvValue
        /\ envState = "idle" =>
              /\ EnvValue = 0
              /\ \A level \in 0..EnvMax :
                    level * AppliedGain(edges, EnvValue) = 0

\* A release has run to its end: the envelope is idle again.
GainIsEnvelopeWitness ==
    /\ node = "AmplitudeEnvelope" /\ ~Disposed
    /\ op.name = "tick" /\ envState = "idle"
    /\ AppliedGain(edges, EnvValue) = 0

\* The calls of the setter: set only for a buffer that is not null, the four
\* calls of the substitution only when the unit had a buffer.
SetterSteps(given, had) ==
    (IF given THEN <<"set">> ELSE <<>>)
    \o (IF had THEN <<"effectSend.disconnect", "_convolver.disconnect",
                     "createConvolver", "connectEffect">>
        ELSE <<>>)
    \o <<"_convolver.buffer=">>

\* C15: an assignment to buffer first sets the backing buffer, then, only
\* when the current unit has a buffer, disconnects it, creates a unit and
\* connects it, then gives the backing buffer's data to the current unit;
\* with no buffer on the unit, the unit stays and is given the data.
SetterOrder ==
    [][(op'.name = "setBuffer" /\ err' = "none")
       => (/\ steps' = SetterSteps(op'.arg # NullArg, convolverBuffer # 0)
           /\ convolver' = (IF convolverBuffer # 0 THEN convolver + 1
                            ELSE convolver)
           /\ convolverBuffer' = BufferGet(bufferData')
           /\ disposedSet = {} => UnitEdges(edges') = Wired(convolver'))]_vars

\* A buffer was assigned to a Convolver whose unit had one: all six calls.
SetterOrderWitness ==
    /\ node = "Convolver"
    /\ op.name = "setBuffer" /\ op.arg > 0 /\ err = "none"
    /\ steps = SetterSteps(TRUE, TRUE)
    /\ convolver = 2 /\ convolverBuffer = op.arg

\* C16: no unit is given a buffer (not null) twice.
UnitBufferOnce ==
    node = "Convolver" =>
        /\ assigns <= 1
        /\ assigns = 1 <=> convolverBuffer # 0

\* The third unit of a Convolver has its buffer: the two before it had one.
UnitBufferOnceWitness ==
    /\ node = "Convolver"
    /\ op.name \in BufferAssigned /\ err = "none"
    /\ convolver = 3 /\ assigns = 1

Signals == {"onload", "resolve"}

\* C17: the completion of a load (onload for the constructor's, the promise
\* of load(url)) is signalled after the setter gave the unit the buffer; a
\* loaded buffer given to the constructor is on the unit when it returns.
SignalAfterAssign ==
    node = "Convolver" =>
        /\ \A i \in 1..Len(steps) :
              steps[i] \in Signals =>
                  /\ \E j \in 1..(i - 1) : steps[j] = "_convolver.buffer="
                  /\ i = Len(steps)
                  /\ convolverBuffer = BufferGet(bufferData)
        /\ (op.name \in {"loadResolved", "supersededResolved"} /\ err = "none")
              => (steps # <<>> /\ steps[Len(steps)] \in Signals)
        /\ (op.name = "new" /\ op.arg > 0) =>
              (convolverBuffer = op.arg /\ steps = SetterSteps(TRUE, FALSE))
        /\ (op.name = "new" /\ op.arg <= 0) => steps = <<>>

\* The constructor's download completed: the unit has the data and onload
\* was called last.
SignalAfterAssignWitness ==
    /\ node = "Convolver"
    /\ op.name = "loadResolved" /\ err = "none"
    /\ steps = <<"set", "set", "_convolver.buffer=", "onload">>
    /\ convolverBuffer = Decode(op.arg)

Reverse(s) == [i \in 1..Len(s) |-> s[Len(s) + 1 - i]]
Range(s) == {s[i] : i \in 1..Len(s)}

Acquired ==
    CASE node = "Convolver" -> ConvolverAcquired
      [] node = "CrossFade" -> CrossFadeAcquired
      [] node = "AmplitudeEnvelope" -> AmplitudeEnvelopeAcquired

\* C18, as claimed: dispose() releases what the constructor acquired in the
\* reverse order, the base node last.
DisposeReverseOrder ==
    op.name = "dispose" => steps = Reverse(Acquired)

\* C18, amended: dispose() releases the base node first, then each thing
\* the node acquired itself, once; only Convolver's own two come in the
\* reverse of their acquisition.
DisposeBaseFirst ==
    op.name = "dispose" =>
        /\ Head(steps) = Head(Acquired)
        /\ Len(steps) = Len(Acquired)
        /\ Range(steps) = Range(Acquired)
        /\ node = "Convolver" => Tail(steps) = Reverse(Tail(Acquired))

\* A CrossFade was disposed.
DisposeBaseFirstWitness ==
    /\ node = "CrossFade"
    /\ op = Op("dispose", 1)
    /\ Len(steps) = 8 /\ steps[2] = "a" /\ steps[8] = "_split"

\* C19: assigning null leaves the backing buffer and what the getter returns
\* as they were; a unit that had a buffer is still replaced, and the new unit
\* is given that same buffer.
NullKeepsBuffer ==
    [][(op'.name = "setBuffer" /\ op'.arg = NullArg /\ err' = "none")
       => (/\ bufferData' = bufferData
           /\ BufferGetter' = BufferGetter
           /\ convolverBuffer # 0 =>
                 /\ convolver' = convolver + 1
                 /\ convolverBuffer' = convolverBuffer
                 /\ convolverBuffer' = BufferGet(bufferData))]_vars

\* null was assigned to a Convolver whose unit had a buffer.
NullKeepsBufferWitness ==
    /\ node = "Convolver"
    /\ op = Op("setBuffer", NullArg) /\ err = "none"
    /\ steps = SetterSteps(FALSE, TRUE)
    /\ convolver = 2 /\ convolverBuffer # 0 /\ BufferGetter = convolverBuffer
=============================================================================
